---- MODULE Spec2Model ----
(***************************************************************************)
(* The pipeline orchestrator of App.tsx: the React state of the App        *)
(* component (activeStep, moleculeSmiles, receptorPdbId, results,          *)
(* isLoading, error), its handlers handleStepClick and handleStepExecution *)
(* and the collaborator calls that handleStepExecution awaits.             *)
(*                                                                         *)
(* handleStepExecution is an async function: it runs synchronously up to   *)
(* its first await (or to its end when an input cannot be resolved and it  *)
(* throws), and its continuation (the code after the await, the catch and  *)
(* the finally blocks) runs when the awaited promise settles. Each call    *)
(* that is awaited is an entry of `pending`, holding what the closure of   *)
(* that invocation captured.                                               *)
(***************************************************************************)
EXTENDS Integers, Sequences, FiniteSets, TLC

VARIABLES
    activeStep,      \* useState<StepId>, App.tsx:21
    moleculeSmiles,  \* useState<string>, App.tsx:22
    receptorPdbId,   \* useState<string>, App.tsx:23
    results,         \* useState<Record<StepId, StepResult | null>>, App.tsx:24
    isLoading,       \* useState<boolean>, App.tsx:36
    error,           \* useState<string | null>, App.tsx:37
    pending,         \* the collaborator calls awaited and not yet settled
    started          \* how many times handleStepExecution has been invoked

vars == <<activeStep, moleculeSmiles, receptorPdbId, results, isLoading, error,
          pending, started>>

-----------------------------------------------------------------------------
(* Bounds of the model *)

\* the number of collaborator calls that may be awaited at the same time
MaxInFlight == 2

\* the number of handleStepExecution invocations of one run
MaxExec == 3

-----------------------------------------------------------------------------
(* Steps *)

PIPELINE_STEPS ==
    << "data-assembly", "pocket-detection", "generative-design", "rapid-triage",
       "docking-rescoring", "md-simulation", "admet-prediction",
       "active-learning", "synthesis-planning", "final-report" >>

StepId ==
    { "data-assembly", "pocket-detection", "generative-design", "rapid-triage",
      "docking-rescoring", "md-simulation", "admet-prediction",
      "active-learning", "synthesis-planning", "final-report" }

\* PIPELINE_STEPS.findIndex(step => step.id === id), counted from 1
findIndex(id) ==
    CHOOSE i \in 1..Len(PIPELINE_STEPS) :
        /\ PIPELINE_STEPS[i] = id
        /\ \A j \in 1..(i - 1) : PIPELINE_STEPS[j] # id

-----------------------------------------------------------------------------
(* JavaScript values held in the payload of a result *)

Undefined == [tag |-> "undefined", items |-> <<>>, str |-> ""]
Arr(s)    == [tag |-> "array", items |-> s, str |-> ""]
Str(s)    == [tag |-> "string", items |-> <<>>, str |-> s]

\* the truthiness the conditions of the code test
Truthy(v) ==
    \/ v.tag = "array"
    \/ v.tag = "string" /\ v.str # ""

IsArray(v) == v.tag = "array"

\* results[id] === null
Null == [type |-> "null"]

JSNull == [tag |-> "null", items |-> <<>>, str |-> ""]

\* a StepResult: its type and the two payload fields the code reads
StepResult(type, generated_smiles, triage_results) ==
    [type |-> type,
     data |-> [generated_smiles |-> generated_smiles,
               triage_results |-> triage_results]]

\* error === null, and an error message
NoError == [isNull |-> TRUE, message |-> ""]
Message(m) == [isNull |-> FALSE, message |-> m]

-----------------------------------------------------------------------------
(* Selection of the top candidates of a triage result *)

\* the comparator (a, b) => b.pIC50 - a.pIC50
compare(a, b) == b.pIC50 - a.pIC50

\* a sort that is not stable: an element goes before the elements it ties with
RECURSIVE insertUnstable(_, _)
insertUnstable(sorted, x) ==
    IF sorted = <<>> THEN <<x>>
    ELSE IF compare(Head(sorted), x) >= 0 THEN <<x>> \o sorted
    ELSE <<Head(sorted)>> \o insertUnstable(Tail(sorted), x)

\* Array.prototype.sort is stable: an element goes after every element the
\* comparator does not order behind it
RECURSIVE insert(_, _)
insert(sorted, x) ==
    IF sorted = <<>> THEN <<x>>
    ELSE IF compare(Head(sorted), x) > 0 THEN <<x>> \o sorted
    ELSE <<Head(sorted)>> \o insert(Tail(sorted), x)

RECURSIVE sortInto(_, _)
sortInto(acc, rest) ==
    IF rest = <<>> THEN acc ELSE sortInto(insert(acc, Head(rest)), Tail(rest))

\* [...triage_results].sort((a, b) => b.pIC50 - a.pIC50)
sort(list) == sortInto(<<>>, list)

\* the number of candidates passed to docking: .slice(0, 3)
TopCount == 3

\* .slice(0, n)
slice(list, n) == SubSeq(list, 1, IF Len(list) < n THEN Len(list) ELSE n)

\* .map(item => item.smiles)
mapSmiles(list) == [i \in 1..Len(list) |-> list[i].smiles]

\* the condition of App.tsx:50 and App.tsx:82 on results['rapid-triage']
hasTriageResults(triageResult) ==
    /\ triageResult # Null
    /\ triageResult.type = "json"
    /\ Truthy(triageResult.data.triage_results)
    /\ IsArray(triageResult.data.triage_results)
    /\ Len(triageResult.data.triage_results.items) > 0

\* a variant that takes the first candidate of the list as it was returned
getTopTriageCandidateUnsorted(res) ==
    LET triageResult == res["rapid-triage"] IN
    IF hasTriageResults(triageResult)
    THEN Str(triageResult.data.triage_results.items[1].smiles)
    ELSE JSNull

\* getTopTriageCandidate(): string | null, over the results of the closure
getTopTriageCandidate(res) ==
    LET triageResult == res["rapid-triage"] IN
    IF hasTriageResults(triageResult)
    THEN Str(sort(triageResult.data.triage_results.items)[1].smiles)
    ELSE JSNull

\* the list runDocking is called with
topSmiles(triageResult) ==
    Arr(mapSmiles(slice(sort(triageResult.data.triage_results.items), TopCount)))

-----------------------------------------------------------------------------
(* The switch of handleStepExecution: the collaborator call of the active  *)
(* step, or the error thrown when its input is not there                   *)

GeneratedNotFound ==
    "Generated molecules not found. Please complete the \"Generative Design\" step first."
TriageNotFound ==
    "Triage results not found. Please complete the \"Rapid Triage\" step first."
UnexpectedError == "An unexpected error occurred."

Call(step, fn, args) == [threw |-> FALSE, message |-> "",
                         call |-> [step |-> step, fn |-> fn, args |-> args]]
Throw(message) == [threw |-> TRUE, message |-> message,
                   call |-> [step |-> "", fn |-> "", args |-> <<>>]]

\* a variant that passes whatever getTopTriageCandidate returns, without the
\* test of App.tsx:94
withTopCandidateUnchecked(step, fn, res) ==
    Call(step, fn, <<getTopTriageCandidate(res)>>)

\* the cases of md-simulation, admet-prediction, active-learning and
\* synthesis-planning, App.tsx:92-127
withTopCandidate(step, fn, res) ==
    LET topMolecule == getTopTriageCandidate(res) IN
    IF Truthy(topMolecule) THEN Call(step, fn, <<topMolecule>>)
    ELSE Throw(TriageNotFound)

\* a variant that passes the first generated molecule alone
caseRapidTriageFirstOnly(step, res) ==
    LET generatedSmilesResult == res["generative-design"] IN
    IF /\ generatedSmilesResult # Null
       /\ generatedSmilesResult.type = "json"
       /\ Truthy(generatedSmilesResult.data.generated_smiles)
    THEN Call(step, "triageCandidates",
              <<Arr(slice(generatedSmilesResult.data.generated_smiles.items, 1))>>)
    ELSE Throw(GeneratedNotFound)

\* case 'rapid-triage', App.tsx:72-79
caseRapidTriage(step, res) ==
    LET generatedSmilesResult == res["generative-design"] IN
    IF /\ generatedSmilesResult # Null
       /\ generatedSmilesResult.type = "json"
       /\ Truthy(generatedSmilesResult.data.generated_smiles)
    THEN Call(step, "triageCandidates",
              <<generatedSmilesResult.data.generated_smiles>>)
    ELSE Throw(GeneratedNotFound)

\* case 'docking-rescoring', App.tsx:80-91
caseDockingRescoring(step, receptor, res) ==
    LET triageResult == res["rapid-triage"] IN
    IF hasTriageResults(triageResult)
    THEN Call(step, "runDocking", <<topSmiles(triageResult), Str(receptor)>>)
    ELSE Throw(TriageNotFound)

\* case 'final-report', App.tsx:128-136
caseFinalReport(step, smiles, res) ==
    LET finalCandidateSmiles == getTopTriageCandidate(res) IN
    IF Truthy(finalCandidateSmiles)
    THEN Call(step, "generateFinalReport", <<Str(smiles), finalCandidateSmiles, res>>)
    ELSE Throw(TriageNotFound)

\* switch (activeStep), App.tsx:62-137
switch(step, smiles, receptor, res) ==
    CASE step = "data-assembly" ->
           Call(step, "analyzeDataAssembly", <<Str(smiles)>>)
      [] step = "pocket-detection" ->
           Call(step, "detectPocket", <<Str(smiles)>>)
      [] step = "generative-design" ->
           Call(step, "generateCandidates", <<Str(smiles)>>)
      [] step = "rapid-triage" -> caseRapidTriage(step, res)
      [] step = "docking-rescoring" -> caseDockingRescoring(step, receptor, res)
      [] step = "md-simulation" -> withTopCandidate(step, "runMDSimulation", res)
      [] step = "admet-prediction" -> withTopCandidate(step, "predictADMET", res)
      [] step = "active-learning" -> withTopCandidate(step, "suggestNextSteps", res)
      [] step = "synthesis-planning" -> withTopCandidate(step, "planSynthesis", res)
      [] step = "final-report" -> caseFinalReport(step, smiles, res)

-----------------------------------------------------------------------------
(* The collaborator (services/geminiService): what a call may resolve with *)
(* and the messages it may reject with                                     *)

Candidate(smiles, pIC50) == [smiles |-> smiles, pIC50 |-> pIC50]

\* pIC50 in tenths: 50 is 5.0, 72 is 7.2
GenerateResponses ==
    { StepResult("json", Arr(<<"CCN", "CCCl">>), Undefined),
      StepResult("json", Arr(<<>>), Undefined),
      StepResult("json", Undefined, Undefined),
      StepResult("text", Undefined, Undefined) }

TriageResponses ==
    { StepResult("json", Undefined,
                 Arr(<<Candidate("A", 50), Candidate("B", 72), Candidate("C", 72)>>)),
      StepResult("json", Undefined, Arr(<<>>)),
      StepResult("json", Undefined, Undefined),
      StepResult("text", Undefined, Undefined) }

Responses(step) ==
    CASE step = "generative-design" -> GenerateResponses
      [] step = "rapid-triage" -> TriageResponses
      [] step = "pocket-detection" ->
           { StepResult("image_and_text", Undefined, Undefined) }
      [] step \in {"docking-rescoring", "admet-prediction"} ->
           { StepResult("json", Undefined, Undefined) }
      [] OTHER -> { StepResult("text", Undefined, Undefined) }

\* e.message of a rejection: a message, or none
FailureMessages == { "Service unavailable", "" }

\* what the user may type into the two fields
SmilesInputs == { "CCO", "c1ccccc1" }
ReceptorInputs == { "4HER", "1ABC" }

-----------------------------------------------------------------------------
(* The state machine *)

Init ==
    /\ activeStep = "data-assembly"
    /\ moleculeSmiles = "CCO"
    /\ receptorPdbId = "4HER"
    /\ results = [id \in StepId |-> Null]
    /\ isLoading = FALSE
    /\ error = NoError
    /\ pending = <<>>
    /\ started = 0

\* a variant that refuses to navigate while a call is awaited
handleStepClickWhenIdle(id) ==
    /\ ~isLoading
    /\ activeStep' = id
    /\ error' = NoError
    /\ UNCHANGED <<moleculeSmiles, receptorPdbId, results, isLoading, pending, started>>

\* handleStepClick(id), App.tsx:39-42
handleStepClick(id) ==
    /\ activeStep' = id
    /\ error' = NoError
    /\ UNCHANGED <<moleculeSmiles, receptorPdbId, results, isLoading, pending, started>>

\* onSmilesChange, App.tsx:177
onSmilesChange(value) ==
    /\ moleculeSmiles' = value
    /\ UNCHANGED <<activeStep, receptorPdbId, results, isLoading, error, pending, started>>

\* onReceptorChange, App.tsx:180
onReceptorChange(value) ==
    /\ receptorPdbId' = value
    /\ UNCHANGED <<activeStep, moleculeSmiles, results, isLoading, error, pending, started>>

\* a variant that empties the slot of the active step before it runs the step
handleStepExecutionClearing ==
    LET r == switch(activeStep, moleculeSmiles, receptorPdbId, results) IN
    /\ started' = started + 1
    /\ results' = [results EXCEPT ![activeStep] = Null]
    /\ IF r.threw
       THEN /\ error' = Message(IF r.message # "" THEN r.message ELSE UnexpectedError)
            /\ isLoading' = FALSE
            /\ pending' = pending
       ELSE /\ error' = NoError
            /\ isLoading' = TRUE
            /\ pending' = Append(pending, r.call)
    /\ UNCHANGED <<activeStep, moleculeSmiles, receptorPdbId>>

\* handleStepExecution up to its await, App.tsx:44-137; when the switch throws,
\* the catch and the finally blocks (App.tsx:145-149) run in the same task
handleStepExecution ==
    LET r == switch(activeStep, moleculeSmiles, receptorPdbId, results) IN
    /\ started' = started + 1
    /\ IF r.threw
       THEN /\ error' = Message(IF r.message # "" THEN r.message ELSE UnexpectedError)
            /\ isLoading' = FALSE
            /\ pending' = pending
       ELSE /\ error' = NoError
            /\ isLoading' = TRUE
            /\ pending' = Append(pending, r.call)
    /\ UNCHANGED <<activeStep, moleculeSmiles, receptorPdbId, results>>

Remove(seq, i) == SubSeq(seq, 1, i - 1) \o SubSeq(seq, i + 1, Len(seq))

\* a variant that advances from the step that is active when the response
\* arrives, not from the step the invocation ran
advanceFromCurrent(step, current) ==
    LET currentStepIndex == findIndex(current) IN
    IF currentStepIndex < Len(PIPELINE_STEPS)
    THEN PIPELINE_STEPS[currentStepIndex + 1]
    ELSE current

\* a variant that goes back to the first step after the last one
advanceWrapping(step, current) ==
    LET currentStepIndex == findIndex(step) IN
    PIPELINE_STEPS[(currentStepIndex % Len(PIPELINE_STEPS)) + 1]

\* a variant without the advance
advanceStaying(step, current) == current

\* the step set active after a response for `step`, App.tsx:141-143
advance(step, current) ==
    LET currentStepIndex == findIndex(step) IN
    IF currentStepIndex < Len(PIPELINE_STEPS)
    THEN PIPELINE_STEPS[currentStepIndex + 1]
    ELSE current

\* a variant that also empties the slots of the steps after the one stored
storeAndInvalidate(prev, step, response) ==
    [id \in StepId |->
       IF id = step THEN response
       ELSE IF findIndex(id) > findIndex(step) THEN Null
       ELSE prev[id]]

\* results after setResults(prev => ({ ...prev, [activeStep]: response }))
store(prev, step, response) == [prev EXCEPT ![step] = response]

\* a variant that stores the response under the step that is active when the
\* response arrives
fulfilledIntoActive(i, response) ==
    LET call == pending[i] IN
    /\ IF response # Null
       THEN /\ results' = store(results, activeStep, response)
            /\ activeStep' = advance(call.step, activeStep)
       ELSE UNCHANGED <<results, activeStep>>
    /\ isLoading' = FALSE
    /\ pending' = Remove(pending, i)
    /\ UNCHANGED <<moleculeSmiles, receptorPdbId, error, started>>

\* the continuation of handleStepExecution when call i resolves,
\* App.tsx:139-144 and 147-149
fulfilled(i, response) ==
    LET call == pending[i] IN
    /\ IF response # Null
       THEN /\ results' = store(results, call.step, response)
            /\ activeStep' = advance(call.step, activeStep)
       ELSE UNCHANGED <<results, activeStep>>
    /\ isLoading' = FALSE
    /\ pending' = Remove(pending, i)
    /\ UNCHANGED <<moleculeSmiles, receptorPdbId, error, started>>

\* a variant without the fallback of App.tsx:146
rejectedNoFallback(i, message) ==
    /\ error' = Message(message)
    /\ isLoading' = FALSE
    /\ pending' = Remove(pending, i)
    /\ UNCHANGED <<activeStep, moleculeSmiles, receptorPdbId, results, started>>

\* a variant without the finally block of App.tsx:147-149
rejectedNoFinally(i, message) ==
    /\ error' = Message(IF message # "" THEN message ELSE UnexpectedError)
    /\ pending' = Remove(pending, i)
    /\ UNCHANGED <<activeStep, moleculeSmiles, receptorPdbId, results, isLoading, started>>

\* the continuation of handleStepExecution when call i rejects,
\* App.tsx:145-149
rejected(i, message) ==
    LET call == pending[i] IN
    /\ error' = Message(IF message # "" THEN message ELSE UnexpectedError)
    /\ isLoading' = FALSE
    /\ pending' = Remove(pending, i)
    /\ UNCHANGED <<activeStep, moleculeSmiles, receptorPdbId, results, started>>

Click == \E id \in StepId : handleStepClick(id)
EditSmiles == \E value \in SmilesInputs : onSmilesChange(value)
EditReceptor == \E value \in ReceptorInputs : onReceptorChange(value)
\* the handler has no condition of its own: the two guards bound the model
Execute ==
    /\ started < MaxExec
    /\ Len(pending) < MaxInFlight
    /\ handleStepExecution
Fulfil == \E i \in 1..Len(pending) : \E response \in Responses(pending[i].step) :
              fulfilled(i, response)
Reject == \E i \in 1..Len(pending) : \E message \in FailureMessages :
              rejected(i, message)

Next ==
    \/ Click
    \/ EditSmiles
    \/ EditReceptor
    \/ Execute
    \/ Fulfil
    \/ Reject

Spec == Init /\ [][Next]_vars

-----------------------------------------------------------------------------
(* Selection over every short triage list: the state after a successful    *)
(* rapid-triage, with the active step one of the steps that read it        *)

\* the longest triage list
MaxLen == 4

Scores == { 50, 60, 72 }
SmilesAt == << "A", "B", "C", "D", "E", "F" >>

TriageLists ==
    { [i \in 1..n |-> Candidate(SmilesAt[i], f[i])] :
        n \in 1..MaxLen, f \in [1..MaxLen -> Scores] }

TriageReaders ==
    { "docking-rescoring", "md-simulation", "admet-prediction",
      "active-learning", "synthesis-planning", "final-report" }

InitTriaged ==
    /\ activeStep \in TriageReaders
    /\ moleculeSmiles = "CCO"
    /\ receptorPdbId = "4HER"
    /\ \E list \in TriageLists :
         results = [id \in StepId |->
                      CASE id = "generative-design" ->
                             StepResult("json", Arr(<<"CCN", "CCCl">>), Undefined)
                        [] id = "rapid-triage" ->
                             StepResult("json", Undefined, Arr(list))
                        [] OTHER -> Null]
    /\ isLoading = FALSE
    /\ error = NoError
    /\ pending = <<>>
    /\ started = 0

SortSpec == InitTriaged /\ [][Execute]_vars

\* the user navigates among the steps that read the triage result and runs
\* them, the calls still awaited
ClickReader == \E id \in TriageReaders : handleStepClick(id)

LeadNext ==
    \/ ClickReader
    \/ Execute

LeadSpec == InitTriaged /\ [][LeadNext]_vars

-----------------------------------------------------------------------------
(* One run of the pipeline: from the initial state the user only runs the  *)
(* active step, waits for its call, and every call resolves, with a        *)
(* non-empty list of molecules from generative-design and a non-empty list *)
(* of candidates from rapid-triage                                         *)

ValidResponses(step) ==
    CASE step = "generative-design" ->
           { StepResult("json", Arr(<<"CCN", "CCCl">>), Undefined),
             StepResult("json", Arr(<<"CCN">>), Undefined) }
      [] step = "rapid-triage" ->
           { StepResult("json", Undefined, Arr(list)) : list \in TriageLists }
      [] OTHER -> Responses(step)

RunExecute ==
    /\ pending = <<>>
    /\ started < Len(PIPELINE_STEPS)
    /\ handleStepExecution

RunFulfil ==
    /\ Len(pending) = 1
    /\ \E response \in ValidResponses(pending[1].step) : fulfilled(1, response)

RunNext ==
    \/ RunExecute
    \/ RunFulfil

PipelineSpec == Init /\ [][RunNext]_vars

-----------------------------------------------------------------------------
(* The collaborator settles every call: each awaited call resolves or      *)
(* rejects in the end. The edits of the two fields, which read and write   *)
(* neither isLoading nor pending, are left out of this specification.      *)

Settle == Fulfil \/ Reject

FairNext ==
    \/ Click
    \/ Execute
    \/ Settle

FairSpec == Init /\ [][FairNext]_vars /\ WF_vars(Settle)

-----------------------------------------------------------------------------
(* Properties *)

\* C1: handleStepExecution invoked while isLoading is true does nothing, so
\* in every reachable state at most one collaborator call is awaited.
C1_SingleCallOutstanding == Len(pending) <= 1

C2_Dependent == StepId \ { "data-assembly", "pocket-detection", "generative-design" }
C2_Dependency(step) ==
    IF step = "rapid-triage" THEN "generative-design" ELSE "rapid-triage"
C2_NotFound(step) ==
    IF step = "rapid-triage" THEN GeneratedNotFound ELSE TriageNotFound

\* C2: an invocation of handleStepExecution for a step past the first three,
\* with the slot the step depends on empty, issues no call, sets error to the
\* step's "not found" message and leaves results and activeStep as they are.
C2_MissingDependencyFails ==
    [][ ( /\ started' # started
          /\ activeStep \in C2_Dependent
          /\ results[C2_Dependency(activeStep)] = Null )
        => ( /\ pending' = pending
             /\ error' = Message(C2_NotFound(activeStep))
             /\ results' = results
             /\ activeStep' = activeStep ) ]_vars

\* one invocation, of final-report with the triage slot empty, has failed
C2_Witness ==
    /\ started = 1
    /\ pending = <<>>
    /\ activeStep = "final-report"
    /\ results["rapid-triage"] = Null
    /\ error = Message(TriageNotFound)

\* the step after k in PIPELINE_STEPS
C3_Following(k) ==
    PIPELINE_STEPS[(CHOOSE n \in 1..Len(PIPELINE_STEPS) : PIPELINE_STEPS[n] = k) + 1]

\* C3: when the call of step k, k not final-report, resolves, activeStep is
\* the step after k, results[k] is not empty and isLoading is false.
C3_SuccessAdvances ==
    [][ \A i \in 1..Len(pending) : \A response \in Responses(pending[i].step) :
          ( fulfilled(i, response) /\ pending[i].step # "final-report" )
          => ( /\ activeStep' = C3_Following(pending[i].step)
               /\ results'[pending[i].step] # Null
               /\ isLoading' = FALSE ) ]_vars

\* the one invocation, of data-assembly, has succeeded
C3_Witness ==
    /\ started = 1
    /\ pending = <<>>
    /\ results["data-assembly"] # Null
    /\ activeStep = "pocket-detection"
    /\ isLoading = FALSE
    /\ error = NoError

C5_Before(list, i, j) ==
    \/ list[i].pIC50 > list[j].pIC50
    \/ list[i].pIC50 = list[j].pIC50 /\ i < j

\* the smiles of the list in that order
C5_Ordered(list) ==
    [k \in 1..Len(list) |->
       list[CHOOSE i \in 1..Len(list) :
              Cardinality({ j \in 1..Len(list) : C5_Before(list, j, i) }) = k - 1].smiles]

\* the earliest of the candidates with the highest pIC50
C5_Top(list) ==
    list[CHOOSE i \in 1..Len(list) :
           \A j \in 1..Len(list) :
              /\ list[j].pIC50 <= list[i].pIC50
              /\ list[j].pIC50 = list[i].pIC50 => i <= j].smiles

\* C5: over a triage list of n > 0 candidates, runDocking is called with the
\* smiles of the first min(3, n) candidates in descending order of pIC50,
\* ties in the order of the list, and every other step that reads the list is
\* called with the earliest candidate of the highest pIC50.
C5_TopCandidates ==
    LET list == results["rapid-triage"].data.triage_results.items
        n == Len(list)
    IN \A c \in 1..Len(pending) :
         /\ pending[c].step = "docking-rescoring"
            => pending[c].args[1] = Arr(SubSeq(C5_Ordered(list), 1, IF n < 3 THEN n ELSE 3))
         /\ pending[c].step \in { "md-simulation", "admet-prediction",
                                  "active-learning", "synthesis-planning" }
            => pending[c].args[1] = Str(C5_Top(list))
         /\ pending[c].step = "final-report"
            => pending[c].args[2] = Str(C5_Top(list))

\* the list [A: 5.0, B: 7.2, C: 7.2]: runDocking is called with [B, C, A]
C5_Witness ==
    /\ results["rapid-triage"].data.triage_results.items =
         << Candidate("A", 50), Candidate("B", 72), Candidate("C", 72) >>
    /\ Len(pending) >= 1
    /\ pending[1].step = "docking-rescoring"
    /\ pending[1].args[1] = Arr(<< "B", "C", "A" >>)

\* C6: when the call of a step whose slot already holds a result resolves,
\* that slot takes the response, every other slot keeps its value, and
\* activeStep changes only to the step after the one that ran.
C6_ReexecutionOverwritesOneSlot ==
    [][ \A i \in 1..Len(pending) : \A response \in Responses(pending[i].step) :
          ( fulfilled(i, response) /\ results[pending[i].step] # Null )
          => ( /\ results'[pending[i].step] = response
               /\ \A id \in StepId \ { pending[i].step } : results'[id] = results[id]
               /\ activeStep' = IF pending[i].step = "final-report"
                                THEN activeStep
                                ELSE C3_Following(pending[i].step) ) ]_vars

\* generative-design ran twice: the triage call that is awaited was given the
\* list of the first result, and the slot now holds the second result
C6_Witness ==
    /\ started = 3
    /\ Len(pending) = 1
    /\ pending[1].fn = "triageCandidates"
    /\ pending[1].args = << Arr(<< "CCN", "CCCl" >>) >>
    /\ results["generative-design"] = StepResult("text", Undefined, Undefined)
    /\ activeStep = "rapid-triage"

\* C7: whenever isLoading is true it is false again later, on every way out
\* of handleStepExecution, given that every awaited call settles.
C7_LoadingIsReleased == isLoading ~> ~isLoading

\* one invocation has ended by the rejection of its call, isLoading released
C7_Witness ==
    /\ started = 1
    /\ pending = <<>>
    /\ isLoading = FALSE
    /\ error = Message("Service unavailable")

\* C8: a slot of results that holds a result never becomes empty again.
C8_SlotsStayPopulated ==
    [][ \A id \in StepId : results[id] # Null => results'[id] # Null ]_vars

\* data-assembly holds a result, and after it the user has navigated to
\* final-report and an invocation has failed there
C8_Witness ==
    /\ started = 2
    /\ results["data-assembly"] # Null
    /\ activeStep = "final-report"
    /\ error = Message(TriageNotFound)

\* C9: handleStepClick(id) can be taken for every step id in every state; it
\* sets activeStep to id and error to null, and changes none of results,
\* isLoading, moleculeSmiles and receptorPdbId.
C9_SelectStep ==
    /\ [](\A id \in StepId : ENABLED handleStepClick(id))
    /\ [][ \A id \in StepId :
             handleStepClick(id)
             => ( /\ activeStep' = id
                  /\ error' = NoError
                  /\ UNCHANGED <<results, isLoading, moleculeSmiles, receptorPdbId>> ) ]_vars

\* the user has navigated to final-report, whose slot is empty, while the call
\* of data-assembly is awaited
C9_Witness ==
    /\ isLoading = TRUE
    /\ Len(pending) = 1
    /\ pending[1].step = "data-assembly"
    /\ activeStep = "final-report"
    /\ results["final-report"] = Null
    /\ error = NoError

\* C10: an invocation of handleStepExecution for rapid-triage, with a result
\* of type json in the slot of generative-design whose generated_smiles is a
\* list, calls triageCandidates with that list as it is stored then.
C10_TriageConsumesGenerated ==
    [][ ( /\ started' # started
          /\ activeStep = "rapid-triage"
          /\ results["generative-design"] # Null
          /\ results["generative-design"].type = "json"
          /\ IsArray(results["generative-design"].data.generated_smiles) )
        => ( /\ Len(pending') = Len(pending) + 1
             /\ pending'[Len(pending')].step = "rapid-triage"
             /\ pending'[Len(pending')].fn = "triageCandidates"
             /\ pending'[Len(pending')].args =
                  << Arr(results["generative-design"].data.generated_smiles.items) >> ) ]_vars

\* triageCandidates is awaited with the two molecules generative-design stored
C10_Witness ==
    /\ started = 2
    /\ results["generative-design"] = StepResult("json", Arr(<< "CCN", "CCCl" >>), Undefined)
    /\ Len(pending) = 1
    /\ pending[1].step = "rapid-triage"
    /\ pending[1].args = << Arr(<< "CCN", "CCCl" >>) >>

\* whether the slot a step depends on holds a result of type json whose list
\* (generated_smiles for rapid-triage, triage_results for the later steps) is
\* there, is a list and is not empty
C11_WellTyped(step) ==
    LET result == results[C2_Dependency(step)]
        list == IF step = "rapid-triage" THEN result.data.generated_smiles
                ELSE result.data.triage_results
    IN /\ result.type = "json"
       /\ list.tag = "array"
       /\ Len(list.items) > 0

\* C11: an invocation of handleStepExecution for a step whose dependency slot
\* holds a result that is not of type json, or whose list is missing, not a
\* list or empty, issues no call and sets error to the step's "not found"
\* message.
C11_MalformedDependencyFails ==
    [][ ( /\ started' # started
          /\ activeStep \in C2_Dependent
          /\ results[C2_Dependency(activeStep)] # Null
          /\ ~C11_WellTyped(activeStep) )
        => ( /\ pending' = pending
             /\ error' = Message(C2_NotFound(activeStep)) ) ]_vars

\* C12 as claimed: isLoading is true only while a call is awaited that is for
\* the step that is active now, and false whenever no call is awaited.
C12_LoadingForActiveStep ==
    /\ isLoading => \E i \in 1..Len(pending) : pending[i].step = activeStep
    /\ pending = <<>> => ~isLoading

\* C12 amended: isLoading is true only while a call is awaited, and false
\* whenever no call is awaited; the call awaited is for the step that was
\* active when handleStepExecution was invoked.
C12_LoadingOnlyWhileAwaiting ==
    /\ isLoading => Len(pending) > 0
    /\ pending = <<>> => ~isLoading

\* the call of generative-design is awaited and the user has navigated back
\* to data-assembly: isLoading is true and no call is for the active step
C12_Witness ==
    /\ isLoading = TRUE
    /\ Len(pending) = 1
    /\ pending[1].step = "generative-design"
    /\ activeStep = "data-assembly"

\* C13: when a call of step k resolves while another step is active, the
\* response is stored in results[k] and the slot of the step that is active
\* keeps its value.
C13_StaleResponseStoredUnderItsStep ==
    [][ \A i \in 1..Len(pending) : \A response \in Responses(pending[i].step) :
          ( fulfilled(i, response) /\ activeStep # pending[i].step )
          => ( /\ results'[pending[i].step] = response
               /\ results'[activeStep] = results[activeStep] ) ]_vars

\* the calls of data-assembly and of generative-design were awaited together,
\* with a navigation between their invocations; the response of
\* data-assembly is in its slot, the slot of generative-design is empty
C13_Witness ==
    /\ started = 2
    /\ Len(pending) = 1
    /\ pending[1].step = "generative-design"
    /\ results["data-assembly"] # Null
    /\ results["generative-design"] = Null
    /\ activeStep = "pocket-detection"

\* the top candidate a call was given: the first of the list of runDocking,
\* the second argument of generateFinalReport, the argument of the others
C14_TopOf(call) ==
    CASE call.step = "docking-rescoring" -> Str(call.args[1].items[1])
      [] call.step = "final-report" -> call.args[2]
      [] OTHER -> call.args[1]

\* C14: over one triage result, the calls of md-simulation, admet-prediction,
\* active-learning, synthesis-planning and final-report are given the same
\* smiles, which is the first of the list the call of docking-rescoring is
\* given.
C14_OneLeadCandidate ==
    \A c \in 1..Len(pending) : \A d \in 1..Len(pending) :
       C14_TopOf(pending[c]) = C14_TopOf(pending[d])

\* over [A: 5.0, B: 7.2, C: 7.2] runDocking and generateFinalReport are
\* awaited, both with B first
C14_Witness ==
    /\ results["rapid-triage"].data.triage_results.items =
         << Candidate("A", 50), Candidate("B", 72), Candidate("C", 72) >>
    /\ Len(pending) = 2
    /\ pending[1].step = "docking-rescoring"
    /\ pending[2].step = "final-report"
    /\ pending[2].args[2] = Str("B")

\* C15: when the call of final-report resolves, the response is stored in
\* results['final-report'] and activeStep stays as it is; activeStep is one of
\* the ten step ids in every reachable state.
C15_LastStepStays ==
    /\ [](activeStep \in StepId /\ Cardinality(StepId) = 10)
    /\ [][ \A i \in 1..Len(pending) : \A response \in Responses(pending[i].step) :
             ( fulfilled(i, response) /\ pending[i].step = "final-report" )
             => ( /\ results'["final-report"] = response
                  /\ activeStep' = activeStep ) ]_vars

\* generative-design, rapid-triage and final-report have run: the report is
\* stored and final-report is still the active step
C15_Witness ==
    /\ started = 3
    /\ pending = <<>>
    /\ results["final-report"] # Null
    /\ activeStep = "final-report"
    /\ isLoading = FALSE

\* C16: if the slot of rapid-triage holds a result so does the slot of
\* generative-design, and if the slot of any step after rapid-triage holds a
\* result so does the slot of rapid-triage.
C16_SlotsClosedUnderDependencies ==
    /\ results["rapid-triage"] # Null => results["generative-design"] # Null
    /\ \A id \in { "docking-rescoring", "md-simulation", "admet-prediction",
                   "active-learning", "synthesis-planning", "final-report" } :
          results[id] # Null => results["rapid-triage"] # Null

\* generative-design, rapid-triage and docking-rescoring have run
C16_Witness ==
    /\ results["generative-design"] # Null
    /\ results["rapid-triage"] # Null
    /\ results["docking-rescoring"] # Null

\* C17: in a run of ten invocations, each awaited and each resolved, the n-th
\* call is that of the n-th step of PIPELINE_STEPS, and after the tenth every
\* slot holds a result, activeStep is final-report, isLoading is false and
\* error is null.
C17_FullRun ==
    /\ pending # <<>> => pending[1].step = PIPELINE_STEPS[started]
    /\ ( started = 10 /\ pending = <<>> )
       => ( /\ \A id \in StepId : results[id] # Null
            /\ activeStep = "final-report"
            /\ isLoading = FALSE
            /\ error = NoError )

\* the tenth call has resolved
C17_Witness ==
    /\ started = 10
    /\ pending = <<>>
    /\ \A id \in StepId : results[id] # Null
    /\ activeStep = "final-report"

=============================================================================
